---- MODULE Spec2Model ----
(***************************************************************************)
(* State-machine model of the HOPE voice-message pairing server            *)
(* (src/server.js): the in-memory queue, the id -> sender index, the       *)
(* presence map, the reply correlation map, the HTTP upload handlers, the  *)
(* socket event handlers and the periodic expiry sweep.                    *)
(*                                                                         *)
(* Encoding notes                                                          *)
(*  - JavaScript arrays are 0-based; sequences here are 1-based, so the    *)
(*    "not found" index -1 of the code is NotFound (0) here.               *)
(*  - generateId() (random + clock, base 36) is modelled as a fresh id     *)
(*    drawn from a counter: ids are opaque and only compared for equality. *)
(*  - Date.now() is the variable now; it advances through Instants.        *)
(*  - Spec leaves the interval timer out: the sweep may run at any         *)
(*    instant. SpecTimed ties it to the 10000 ms timer (nextSweep) and     *)
(*    SpecTimedFair adds that the clock advances and the timer fires.      *)
(*  - Node runs each handler to completion; the only suspension points are *)
(*    the awaits on the blob upload, so each HTTP upload is two actions    *)
(*    (Start / Done) and every socket handler is one action.               *)
(*  - author, registered, emitted, evicted and last are history variables: *)
(*    who really made an upload, which socket registered which            *)
(*    correlation, which events reached which connected socket, which      *)
(*    messages the sweep removed, and what the last handler answered.      *)
(***************************************************************************)
EXTENDS Bags, FiniteSets, Integers, Sequences, TLC

\* ---------------------------------------------------------------- bounds
MaxIds == 2
MaxQueue == 3

\* sweep periods the timed clock runs through
TimedPeriods == 7
\* units of jitter (TimedLate, TimedEarly) the timer may accumulate
TimedJitterSteps == 1

\* socket ids of the connections (also the clients behind them)
Conns == {"s1", "s2"}
Ids == 1..MaxIds
\* clock readings the model samples (ms): around the TTL boundary
Instants == {0, 1000, 60000, 61000}

\* ------------------------------------------------------ program constants
TTL == 60000
SweepPeriod == 10000
Anonymous == "anonymous"
NotFound == 0
Absent == "absent"
NoConn == "-"
NoData == <<>>

VARIABLES
    messageQueue,    \* server.js:35  array of [id, timestamp, senderId] (fileName is "messages/<id>.wav")
    activeUsers,     \* server.js:36  Map socket id -> presence entry
    pendingReplies,  \* server.js:37  Map message id -> [senderId, timestamp]
    userMessages,    \* server.js:38  Map message id -> senderId
    connState,       \* server.js:168, 247  each socket: "idle" (not yet connected), "open", "closed"
    uploads,         \* server.js:80, 142  requests suspended at the await of the blob upload
    nextId,          \* server.js:40  the next value of generateId()
    now,             \* Date.now()
    nextSweep,       \* server.js:59  the instant at which setInterval next runs the sweep
    author,          \* history: message id -> the client (socket id) whose request enqueued it
    registered,      \* history: correlation id -> the socket whose send-message registered it
    emitted,         \* history: bag of message-received / reply-received events that reached a socket
    evicted,         \* history: ids of the messages removed by the sweep
    last             \* history: what the last step answered (Response)

vars == <<messageQueue, activeUsers, pendingReplies, userMessages,
          connState, uploads, nextId, now, nextSweep,
          author, registered, emitted, evicted, last>>

\* ------------------------------------------------------------ Map helpers
EmptyMap == [x \in {} |-> 0]
MapHas(m, k) == k \in DOMAIN m
MapSet(m, k, v) == [x \in (DOMAIN m) \cup {k} |-> IF x = k THEN v ELSE m[x]]
MapDelete(m, k) == [x \in (DOMAIN m) \ {k} |-> m[x]]
Undefined == "undefined"
MapGet(m, k) == IF k \in DOMAIN m THEN m[k] ELSE Undefined

\* Array.prototype.splice(i, 1): the array without its i-th element
Splice(q, i) == SubSeq(q, 1, i - 1) \o SubSeq(q, i + 1, Len(q))

QueueIds(q) == {q[i].id : i \in 1..Len(q)}

Response(op, conn, id, ack, target, pos) ==
    [op |-> op, conn |-> conn, id |-> id, ack |-> ack, target |-> target, pos |-> pos]

\* last after a step that answers nothing to anyone (the clock, a new
\* connection, a request that is still awaiting its blob upload)
Quiet == Response("-", NoConn, 0, "-", NoConn, 0)

Init ==
    /\ messageQueue = <<>>
    /\ activeUsers = EmptyMap
    /\ pendingReplies = EmptyMap
    /\ userMessages = EmptyMap
    /\ connState = [c \in Conns |-> "idle"]
    /\ uploads = {}
    /\ nextId = 1
    /\ now = 0
    /\ nextSweep = SweepPeriod
    /\ author = EmptyMap
    /\ registered = EmptyMap
    /\ emitted = EmptyBag
    /\ evicted = {}
    /\ last = Quiet

\* io.on("connection"): a socket with a fresh id is connected
Connect(c) ==
    /\ connState[c] = "idle"
    /\ connState' = [connState EXCEPT ![c] = "open"]
    /\ last' = Quiet
    /\ UNCHANGED <<messageQueue, activeUsers, pendingReplies, userMessages,
                   uploads, nextId, now, author, registered, emitted, evicted, nextSweep>>

\* ---------------------------------------------------------- join-queue
\* The scan of join-queue: index of the first queued message whose sender
\* recorded in userMessages differs from the socket id, NotFound if none.
RECURSIVE ScanFrom(_, _, _, _)
ScanFrom(q, um, sid, i) ==
    IF i > Len(q) THEN NotFound
    ELSE IF MapGet(um, q[i].id) # sid THEN i
    ELSE ScanFrom(q, um, sid, i + 1)

\* a scan that keeps the last eligible index instead of stopping at the first
RECURSIVE ScanLast(_, _, _, _)
ScanLast(q, um, sid, i) ==
    IF i < 1 THEN NotFound
    ELSE IF MapGet(um, q[i].id) # sid THEN i
    ELSE ScanLast(q, um, sid, i - 1)

ClaimIndexFromTail(q, um, sid) == ScanLast(q, um, sid, Len(q))

ClaimIndex(q, um, sid) == ScanFrom(q, um, sid, 1)

\* messageQueue after the claim at index i (NotFound: untouched)
\* a claim that forgets the splice
QueueAfterClaimKept(q, i) == q

QueueAfterClaim(q, i) == IF i # NotFound THEN Splice(q, i) ELSE q

\* activeUsers.set(socket.id, {...userData, joinedAt}): the stored value is
\* never read by the program (only the key set and its size are), so the
\* map is kept as socket id -> TRUE.
\* a join that records no presence
PresenceNotRecorded(au, c) == au

PresenceAfterJoin(au, c) == MapSet(au, c, TRUE)

MessageReceived(c, id) ==
    [ev |-> "message-received", to |-> c, id |-> id, via |-> "join-queue"]

JoinQueue(c) ==
    /\ connState[c] = "open"
    /\ activeUsers' = PresenceAfterJoin(activeUsers, c)
    /\ LET messageIndex == ClaimIndex(messageQueue, userMessages, c) IN
         IF messageIndex # NotFound
         THEN LET message == messageQueue[messageIndex] IN
                /\ messageQueue' = QueueAfterClaim(messageQueue, messageIndex)
                /\ userMessages' = MapDelete(userMessages, message.id)
                /\ emitted' = emitted (+) SetToBag({MessageReceived(c, message.id)})
                /\ last' = Response("join-queue", c, message.id, "message-received", c, messageIndex)
         ELSE /\ UNCHANGED <<messageQueue, userMessages, emitted>>
              /\ last' = Response("join-queue", c, 0, "-", NoConn, 0)
    /\ UNCHANGED <<pendingReplies, connState, uploads, nextId, now,
                   author, registered, evicted, nextSweep>>

\* -------------------------------------------------------- send-message
\* The key under which send-message registers the correlation.
CorrelationKey(fresh) == fresh

SendMessage(c) ==
    /\ connState[c] = "open"
    /\ nextId <= MaxIds
    /\ LET messageId == CorrelationKey(nextId) IN
         /\ pendingReplies' = MapSet(pendingReplies, messageId,
                                     [senderId |-> c, timestamp |-> now])
         /\ last' = Response("send-message", c, messageId, "message-sent", c, 0)
         /\ registered' = MapSet(registered, messageId, c)
    /\ nextId' = nextId + 1
    /\ UNCHANGED <<messageQueue, activeUsers, userMessages, connState, uploads,
                   now, author, emitted, evicted, nextSweep>>

\* ---------------------------------------------------------- send-reply
ReplyReceived(c, id, via) ==
    [ev |-> "reply-received", to |-> c, id |-> id, via |-> via]

\* io.to(room).emit: the room of a socket id holds that socket while it is
\* connected; an emit to an empty room is dropped.
RoomMembers(room) == {c \in Conns : c = room /\ connState[c] = "open"}

\* pendingReplies after send-reply has looked up id
\* a resolve that forgets the delete
PendingKept(pr, id) == pr

PendingAfterResolve(pr, id) == IF MapHas(pr, id) THEN MapDelete(pr, id) ELSE pr

\* an acknowledgement sent only when the lookup found a sender
ReplyAckIfFound(found) == IF found THEN "reply-sent" ELSE "-"

\* socket.emit("reply-sent", ...) after the lookup, whatever it found
ReplyAck(found) == "reply-sent"

\* data is the event payload: NoData (no payload: the destructuring throws and
\* the catch emits "error") or <<originalMessageId>>. The replyId it also
\* carries is only copied into the event and is left out.
SendReply(c, data) ==
    /\ connState[c] = "open"
    /\ IF data = NoData
       THEN /\ last' = Response("send-reply", c, 0, "error", NoConn, 0)
            /\ UNCHANGED <<pendingReplies, emitted>>
       ELSE LET originalMessageId == data[1] IN
            IF MapHas(pendingReplies, originalMessageId)
            THEN LET originalSender == pendingReplies[originalMessageId] IN
                   /\ emitted' = emitted (+) SetToBag(
                          {ReplyReceived(r, originalMessageId, "send-reply") :
                               r \in RoomMembers(originalSender.senderId)})
                   /\ pendingReplies' = PendingAfterResolve(pendingReplies, originalMessageId)
                   /\ last' = Response("send-reply", c, originalMessageId, ReplyAck(TRUE),
                                       originalSender.senderId, 0)
            ELSE /\ UNCHANGED <<pendingReplies, emitted>>
                 /\ last' = Response("send-reply", c, originalMessageId, ReplyAck(FALSE), NoConn, 0)
    /\ UNCHANGED <<messageQueue, activeUsers, userMessages, connState, uploads,
                   nextId, now, author, registered, evicted, nextSweep>>

\* ---------------------------------------------------------- disconnect
\* a disconnect that also purges the correlations the socket registered
PendingPurged(pr, c) == [k \in {x \in DOMAIN pr : pr[x].senderId # c} |-> pr[k]]

\* pendingReplies after a disconnect: the handler does not touch it
PendingAfterDisconnect(pr, c) == pr

PresenceAfterDisconnect(au, c) == MapDelete(au, c)

Disconnect(c) ==
    /\ connState[c] = "open"
    /\ connState' = [connState EXCEPT ![c] = "closed"]
    /\ activeUsers' = PresenceAfterDisconnect(activeUsers, c)
    /\ pendingReplies' = PendingAfterDisconnect(pendingReplies, c)
    /\ last' = Response("disconnect", c, 0, "-", NoConn, 0)
    /\ UNCHANGED <<messageQueue, userMessages, uploads, nextId,
                   now, author, registered, emitted, evicted, nextSweep>>

\* ------------------------------------------------ POST /api/upload-message
\* req.body.senderId || "anonymous"
RecordedSender(sid) == IF sid = Absent THEN Anonymous ELSE sid

InFlight(kind, id, senderId, a, orig) ==
    [kind |-> kind, id |-> id, senderId |-> senderId, author |-> a, orig |-> orig]

\* The request of client a arrives. file is what multer found in the field
\* "audio": "none" (no file: 400), "other" (not audio/*: the fileFilter fails
\* the request before the handler runs) or "audio" (the handler generates the
\* id and awaits the blob upload).
UploadMessageStart(a, file, sid) ==
    /\ IF file = "audio"
       THEN /\ nextId <= MaxIds
            /\ uploads' = uploads \cup
                   {InFlight("message", nextId, RecordedSender(sid), a, 0)}
            /\ nextId' = nextId + 1
            /\ last' = Quiet
       ELSE /\ UNCHANGED <<uploads, nextId>>
            /\ last' = Response("upload-message", NoConn, 0,
                                IF file = "none" THEN "400" ELSE "500", NoConn, 0)
    /\ UNCHANGED <<messageQueue, activeUsers, pendingReplies, userMessages,
                   connState, now, author, registered, emitted, evicted, nextSweep>>

\* an insertion at the head (unshift)
EnqueueAtHead(q, message) == <<message>> \o q

\* messageQueue.push(message)
Enqueue(q, message) == Append(q, message)

\* The blob upload of request u settles: error (500, nothing enqueued) or
\* success (push, index, respond with the queue length).
UploadMessageDone(u, ok) ==
    /\ u \in uploads
    /\ u.kind = "message"
    /\ uploads' = uploads \ {u}
    /\ IF ok
       THEN LET message == [id |-> u.id, timestamp |-> now, senderId |-> u.senderId] IN
              /\ messageQueue' = Enqueue(messageQueue, message)
              /\ userMessages' = MapSet(userMessages, u.id, u.senderId)
              /\ author' = MapSet(author, u.id, u.author)
              /\ last' = Response("upload-message", u.author, u.id, "200", NoConn,
                                  Len(messageQueue'))
       ELSE /\ UNCHANGED <<messageQueue, userMessages, author>>
            /\ last' = Response("upload-message", u.author, u.id, "500", NoConn, 0)
    /\ UNCHANGED <<activeUsers, pendingReplies, connState, nextId, now,
                   registered, emitted, evicted, nextSweep>>

\* -------------------------------------------------- POST /api/upload-reply
UploadReplyStart(file, orig) ==
    /\ IF file = "audio"
       THEN /\ nextId <= MaxIds
            /\ uploads' = uploads \cup {InFlight("reply", nextId, NoConn, NoConn, orig)}
            /\ nextId' = nextId + 1
            /\ last' = Quiet
       ELSE /\ UNCHANGED <<uploads, nextId>>
            /\ last' = Response("upload-reply", NoConn, 0,
                                IF file = "none" THEN "400" ELSE "500", NoConn, 0)
    /\ UNCHANGED <<messageQueue, activeUsers, pendingReplies, userMessages,
                   connState, now, author, registered, emitted, evicted, nextSweep>>

\* The sockets the reply event of upload-reply goes to: io.emit reaches
\* every connected socket.
ReplyUploadTargets(orig) == {c \in Conns : connState[c] = "open"}

UploadReplyDone(u, ok) ==
    /\ u \in uploads
    /\ u.kind = "reply"
    /\ uploads' = uploads \ {u}
    /\ IF ok
       THEN /\ emitted' = emitted (+) SetToBag(
                   {ReplyReceived(c, u.orig, "upload-reply") : c \in ReplyUploadTargets(u.orig)})
            /\ last' = Response("upload-reply", NoConn, u.orig, "200", NoConn, 0)
       ELSE /\ UNCHANGED emitted
            /\ last' = Response("upload-reply", NoConn, u.orig, "500", NoConn, 0)
    /\ UNCHANGED <<messageQueue, activeUsers, pendingReplies, userMessages,
                   connState, nextId, now, author, registered, evicted, nextSweep>>

\* ---------------------------------------------------------- skip-message
\* The handler logs data.messageId and answers the caller; it reads and
\* writes none of the stores. data is the event payload: <<messageId>>, the
\* id drawn from all of Ids, issued or not, or NoData (no payload, or null):
\* reading data.messageId then throws a TypeError, the handler has no
\* try/catch, and nothing is emitted. What the framework does with the
\* exception that leaves the handler is outside src/ and is not modelled.
\* The answer carries no id.
\* a skip that puts the message back at the tail of the queue
QueueAfterSkipRequeued(q, id) ==
    IF id \in QueueIds(q) THEN q
    ELSE Append(q, [id |-> id, timestamp |-> 0, senderId |-> Anonymous])

QueueAfterSkip(q, id) == q

SkipThrown == "TypeError"

SkipMessage(c, data) ==
    /\ connState[c] = "open"
    /\ IF data = NoData
       THEN /\ UNCHANGED messageQueue
            /\ last' = Response("skip-message", c, 0, SkipThrown, NoConn, 0)
       ELSE /\ messageQueue' = QueueAfterSkip(messageQueue, data[1])
            /\ last' = Response("skip-message", c, 0, "message-skipped", c, 0)
    /\ UNCHANGED <<activeUsers, pendingReplies, userMessages, connState, uploads,
                   nextId, now, author, registered, emitted, evicted, nextSweep>>

\* ----------------------------------------------------------- GET /health
\* The two counters of the response body.
HealthActiveUsers(au) == Cardinality(DOMAIN au)
HealthQueueLength(q) == Len(q)

\* last records the body in the two number fields of Response:
\* id is activeUsers, pos is queueLength.
Health ==
    /\ last' = Response("health", NoConn, HealthActiveUsers(activeUsers), "200",
                        NoConn, HealthQueueLength(messageQueue))
    /\ UNCHANGED <<messageQueue, activeUsers, pendingReplies, userMessages, connState,
                   uploads, nextId, now, author, registered, emitted, evicted, nextSweep>>

\* ---------------------------------------------- cleanupExpiredMessages
\* an expiry test that already fires at the TTL itself
ExpiredAtTtl(t, timestamp) == t - timestamp >= TTL

\* an expiry test that never fires
ExpiredNever(t, timestamp) == FALSE

\* an expiry test that fires one sweep period late
ExpiredLate(t, timestamp) == t - timestamp > TTL + SweepPeriod

Expired(t, timestamp) == t - timestamp > TTL

\* a first loop that splices the queue and forgets the index
RECURSIVE SweepFromQueueOnly(_, _, _)
SweepFromQueueOnly(st, i, t) ==
    IF i < 1 THEN st
    ELSE IF t - st.q[i].timestamp > TTL
         THEN SweepFromQueueOnly([q |-> Splice(st.q, i), um |-> st.um], i - 1, t)
         ELSE SweepFromQueueOnly(st, i - 1, t)

\* The first loop, from the tail of the queue to its head: st is
\* [q, um], the queue and the index so far.
RECURSIVE SweepFrom(_, _, _)
SweepFrom(st, i, t) ==
    IF i < 1 THEN st
    ELSE IF Expired(t, st.q[i].timestamp)
         THEN SweepFrom([q |-> Splice(st.q, i), um |-> MapDelete(st.um, st.q[i].id)], i - 1, t)
         ELSE SweepFrom(st, i - 1, t)

\* a sweep without its second loop
SweepPendingNone(pr, t) == pr

\* a second loop that drops every correlation, expired or not
SweepPendingAll(pr, t) == EmptyMap

\* The second loop: the correlations that are not expired.
SweepPending(pr, t) ==
    [k \in {x \in DOMAIN pr : ~Expired(t, pr[x].timestamp)} |-> pr[k]]

\* What one run of cleanupExpiredMessages does to the stores.
SweepEffects ==
    /\ LET st == SweepFrom([q |-> messageQueue, um |-> userMessages], Len(messageQueue), now)
           gone == {i \in 1..Len(messageQueue) : messageQueue[i].id \notin QueueIds(st.q)}
       IN /\ messageQueue' = st.q
          /\ userMessages' = st.um
          /\ evicted' = evicted \cup {messageQueue[i].id : i \in gone}
          /\ last' = Response("sweep", NoConn, 0, "-", NoConn, Cardinality(gone))
    /\ pendingReplies' = SweepPending(pendingReplies, now)
    /\ UNCHANGED <<activeUsers, connState, uploads, nextId, now, author, registered, emitted>>

\* The sweep with the timer left out: it may run at any instant.
Sweep ==
    /\ SweepEffects
    /\ UNCHANGED nextSweep

\* ------------------------------------------------------------- the clock
Tick(t) ==
    /\ t > now
    /\ now' = t
    /\ last' = Quiet
    /\ UNCHANGED <<messageQueue, activeUsers, pendingReplies, userMessages,
                   connState, uploads, nextId, author, registered, emitted, evicted, nextSweep>>

Files == {"none", "other", "audio"}
\* ids the server has handed out so far: the ids a client can name
Issued == 1..(nextId - 1)
Payloads == {NoData} \cup {<<i>> : i \in Issued}
SkipPayloads == {NoData} \cup {<<i>> : i \in Ids}

Next ==
    \/ \E c \in Conns : Connect(c)
    \/ \E c \in Conns : JoinQueue(c)
    \/ \E c \in Conns : SendMessage(c)
    \/ \E c \in Conns, data \in Payloads : SendReply(c, data)
    \/ \E c \in Conns : Disconnect(c)
    \/ \E c \in Conns, data \in SkipPayloads : SkipMessage(c, data)
    \/ Health
    \/ \E a \in Conns, file \in Files : \E sid \in {a, Absent} : UploadMessageStart(a, file, sid)
    \/ \E u \in uploads, ok \in BOOLEAN : UploadMessageDone(u, ok)
    \/ \E file \in Files, orig \in Issued : UploadReplyStart(file, orig)
    \/ \E u \in uploads, ok \in BOOLEAN : UploadReplyDone(u, ok)
    \/ Sweep
    \/ \E t \in Instants : Tick(t)

Spec == Init /\ [][Next]_vars

\* ------------------------------------------ a queue drawn, then joins only
\* The queues join-queue can meet: up to MaxQueue messages in enqueue order
\* (id i is the i-th enqueued), timestamps non-decreasing, each sender a
\* socket id or "anonymous", the index agreeing with the queue. Every
\* connection is open and only join-queue events arrive.
FifoStamps == {0, 1000}
FifoQueues ==
    UNION {{q \in [1..n -> [id : 1..n, timestamp : FifoStamps, senderId : Conns \cup {Anonymous}]] :
               /\ \A i \in 1..n : q[i].id = i
               /\ \A i \in 1..(n - 1) : q[i].timestamp <= q[i + 1].timestamp}
           : n \in 0..MaxQueue}

FifoInit ==
    /\ messageQueue \in FifoQueues
    /\ userMessages = [k \in QueueIds(messageQueue) |-> messageQueue[k].senderId]
    /\ author = [k \in QueueIds(messageQueue) |->
                    IF messageQueue[k].senderId \in Conns THEN messageQueue[k].senderId
                    ELSE CHOOSE c \in Conns : TRUE]
    /\ activeUsers = EmptyMap
    /\ pendingReplies = EmptyMap
    /\ registered = EmptyMap
    /\ connState = [c \in Conns |-> "open"]
    /\ uploads = {}
    /\ nextId = Len(messageQueue) + 1
    /\ now = 1000
    /\ nextSweep = SweepPeriod
    /\ emitted = EmptyBag
    /\ evicted = {}
    /\ last = Quiet

FifoNext == \E c \in Conns : JoinQueue(c)

SpecFifo == FifoInit /\ [][FifoNext]_vars

\* ------------------------------------------- the sweep on its timer
\* setInterval(cleanupExpiredMessages, 10000): Node re-arms the timer one
\* period after each firing, on its own loop clock, and may run the callback
\* late. The callback reads another clock, Date.now(), and that reading is
\* what the sweep compares timestamps with; between two firings the readings
\* can differ by a little less than the period as well as by more. nextSweep
\* is the reading of the previous firing plus the period: the sweep runs at a
\* reading from nextSweep - TimedEarly to nextSweep + TimedLate, and the
\* jitter accumulates. The source bounds neither; the two are samples, and
\* the clock samples the instants k * SweepPeriod, each also shifted by up
\* to TimedJitterSteps units of either. Other handlers run at any sampled
\* instant, before or after a due sweep.
TimedLate == SweepPeriod \div 10
TimedEarly == 3
TimedHorizon == TimedPeriods * SweepPeriod
TimedShifts ==
    {p[1] * TimedLate - p[2] * TimedEarly :
        p \in {q \in (0..TimedJitterSteps) \X (0..TimedJitterSteps) :
                   q[1] + q[2] <= TimedJitterSteps}}
TimedInstants ==
    {t \in {k * SweepPeriod + d : k \in 0..TimedPeriods, d \in TimedShifts} : t >= 0}

\* Messages are enqueued only at instants that the last sampled firing of
\* the timer, however early, outlasts by more than the TTL.
TimedLastFiring == TimedHorizon - TimedJitterSteps * TimedEarly
TimedMayEnqueue == TimedLastFiring - now > TTL
TimedLastEnqueue == CHOOSE t \in TimedInstants :
                       /\ TimedLastFiring - t > TTL
                       /\ \A u \in TimedInstants : TimedLastFiring - u > TTL => u <= t

TimedSweep ==
    /\ now >= nextSweep - TimedEarly
    /\ SweepEffects
    /\ nextSweep' = now + SweepPeriod

TimedTick(t) ==
    /\ t <= nextSweep + TimedLate
    /\ Tick(t)

TimedUploadMessageStart(a, file, sid) ==
    /\ TimedMayEnqueue
    /\ UploadMessageStart(a, file, sid)

TimedUploadMessageDone(u, ok) ==
    /\ TimedMayEnqueue
    /\ UploadMessageDone(u, ok)

\* The handlers that put messages into the queue and take them out, and the
\* timer; uploads carry an audio file (a request without one changes nothing).
TimedNext ==
    \/ \E c \in Conns : Connect(c)
    \/ \E c \in Conns : JoinQueue(c)
    \/ \E a \in Conns : \E sid \in {a, Absent} : TimedUploadMessageStart(a, "audio", sid)
    \/ \E u \in uploads, ok \in BOOLEAN : TimedUploadMessageDone(u, ok)
    \/ TimedSweep
    \/ \E t \in TimedInstants : TimedTick(t)

SpecTimed == Init /\ [][TimedNext]_vars

\* Time advances and the timer keeps firing.
TimedFairness ==
    /\ WF_vars(TimedSweep)
    /\ WF_vars(\E t \in TimedInstants : TimedTick(t))

SpecTimedFair == Init /\ [][TimedNext]_vars /\ TimedFairness

\* ======================================================== the claims
Events == BagToSet(emitted)
Received == {e \in Events : e.ev = "message-received"}
Replies == {e \in Events : e.ev = "reply-received"}

\* C1 (as claimed): no message-received event ever carries, to a connection,
\* a message that the client behind that connection uploaded itself.
C1_NoSelfPairing ==
    \A e \in Received : author[e.id] # e.to

\* C2: every enqueued message is in exactly one place: still queued, delivered
\* (once, to one connection) or evicted; so none is delivered twice or to two
\* connections, none is delivered after its eviction, and a join-queue removes
\* no more than the one message it delivers.
C2_AtMostOnceClaim ==
    /\ \A e \in Received :
         /\ CopiesIn(e, emitted) = 1
         /\ \A f \in Received : f.id = e.id => f.to = e.to
         /\ e.id \notin QueueIds(messageQueue)
         /\ e.id \notin evicted
    /\ evicted \cap QueueIds(messageQueue) = {}
    /\ DOMAIN author = QueueIds(messageQueue) \cup evicted \cup {e.id : e \in Received}
    /\ Len(messageQueue) = Cardinality(QueueIds(messageQueue))
    /\ (last.op = "join-queue" /\ last.id # 0) => MessageReceived(last.conn, last.id) \in Received

C2_TwoViewersClaimed ==
    /\ \E e, f \in Received : e.to # f.to /\ e.id # f.id
    /\ last.op = "join-queue"

\* C3 (as claimed): every reply-received event, whichever of send-reply and
\* upload-reply caused it, reached only the connection that registered the
\* correlation for its originalMessageId, and that correlation is gone.
C3_RepliesTargeted ==
    \A e \in Replies :
        /\ e.id \in DOMAIN registered
        /\ registered[e.id] = e.to
        /\ e.id \notin DOMAIN pendingReplies

\* C4: the reply-received events caused by send-reply: for each
\* originalMessageId there is at most one, it went to the connection that
\* registered the id, and the id has no correlation any more, so that a later
\* send-reply for it emits nothing.
C4_AtMostOnceReply ==
    /\ \A e \in Replies :
         e.via = "send-reply" =>
            /\ CopiesIn(e, emitted) = 1
            /\ e.id \in DOMAIN registered
            /\ e.to = registered[e.id]
            /\ e.id \notin DOMAIN pendingReplies
    /\ (last.op = "send-reply" /\ last.target = NoConn /\ last.ack # "error") =>
            last.id \notin DOMAIN pendingReplies

C4_SecondReplyFoundNothing ==
    /\ last.op = "send-reply"
    /\ last.target = NoConn
    /\ \E e \in Replies : e.via = "send-reply" /\ e.id = last.id

\* C5 (as claimed): a send-message of a connection that has a message in
\* circulation (enqueued and not evicted) registers the correlation under the
\* id of a message that connection authored.
C5_KeyedByMessageId ==
    (/\ last.op = "send-message"
     /\ \E m \in DOMAIN author : author[m] = last.conn /\ m \notin evicted)
    => (last.id \in DOMAIN author /\ author[last.id] = last.conn)

\* C6: join-queue serves the oldest eligible message: no connection has
\* received a message while an older one (enqueued earlier: a smaller id in a
\* drawn queue) whose senderId differs from its socket id is still queued, and
\* a join-queue that delivered nothing left only the joiner's own messages.
C6_FifoFairness ==
    /\ \A e \in Received : \A i \in 1..Len(messageQueue) :
         messageQueue[i].senderId # e.to => messageQueue[i].id > e.id
    /\ (last.op = "join-queue" /\ last.id = 0) =>
         \A i \in 1..Len(messageQueue) : messageQueue[i].senderId = last.conn
    /\ (last.op = "join-queue" /\ last.id # 0) =>
         /\ MessageReceived(last.conn, last.id) \in Received
         /\ last.id \notin QueueIds(messageQueue)

C6_ThreeInOrder ==
    \E v \in Conns :
        /\ {e.id : e \in {r \in Received : r.to = v}} = {1, 2, 3}
        /\ last.op = "join-queue"
        /\ last.conn = v
        /\ last.id = 3

\* C7: a sweep keeps exactly the messages whose age is at most 60000 ms, in
\* the queue and in the index: present at age 59000 and 60000, absent (from
\* both) at every greater age.
C7_TtlBoundary ==
    [][last'.op = "sweep" =>
          \A i \in 1..Len(messageQueue) :
             LET m == messageQueue[i] IN
               /\ (now - m.timestamp <= 60000) =>
                     (m.id \in QueueIds(messageQueue') /\ m.id \in DOMAIN userMessages')
               /\ (now - m.timestamp > 60000) =>
                     (m.id \notin QueueIds(messageQueue') /\ m.id \notin DOMAIN userMessages')
      ]_vars

C7_KeptAtTtlEvictedAfter ==
    /\ last.op = "sweep"
    /\ last.pos > 0
    /\ \E i \in 1..Len(messageQueue) :
          /\ now - messageQueue[i].timestamp = 60000
          /\ messageQueue[i].id \in DOMAIN userMessages

\* C8: a send-reply that carries an originalMessageId with no correlation
\* changes nothing (no event, same pendingReplies, queue, index, presence) and
\* answers reply-sent to the replier; and every send-reply that carries a
\* payload is answered reply-sent, whatever the lookup found.
C8_DanglingReplyHarmless ==
    [][last'.op = "send-reply" /\ last'.ack # "error" =>
          /\ last'.ack = "reply-sent"
          /\ last'.id \notin DOMAIN pendingReplies =>
                /\ last'.target = NoConn
                /\ UNCHANGED <<pendingReplies, messageQueue, userMessages,
                               activeUsers, emitted>>
      ]_vars

C8_DanglingReplyAcked ==
    /\ last.op = "send-reply"
    /\ last.target = NoConn
    /\ last.ack = "reply-sent"
    /\ last.id \notin DOMAIN registered
    /\ pendingReplies # EmptyMap

\* C9: a disconnect removes the connection's presence entry and nothing else
\* (queue, index and pendingReplies keep their values); a later send-reply
\* for a correlation the closed connection registered still resolves to it,
\* removes the correlation, acknowledges the replier, and reaches no socket.
C9_NoCascadingCleanup ==
    [][/\ \A c \in Conns :
            (connState[c] = "open" /\ connState'[c] = "closed") =>
               /\ DOMAIN activeUsers' = (DOMAIN activeUsers) \ {c}
               /\ UNCHANGED <<messageQueue, userMessages, pendingReplies>>
       /\ (/\ last'.op = "send-reply"
           /\ last'.ack # "error"
           /\ last'.id \in DOMAIN pendingReplies
           /\ connState[pendingReplies[last'.id].senderId] = "closed") =>
               /\ last'.target = pendingReplies[last'.id].senderId
               /\ last'.id \notin DOMAIN pendingReplies'
               /\ last'.ack = "reply-sent"
               /\ emitted' = emitted
      ]_vars

C9_ReplyToClosedSender ==
    /\ last.op = "send-reply"
    /\ last.target \in Conns
    /\ connState[last.target] = "closed"
    /\ last.ack = "reply-sent"
    /\ last.id \notin DOMAIN pendingReplies

\* C10: an upload-message request answered with an error leaves the queue and
\* the index as they were; one answered 200 appended exactly one message at
\* the tail, indexed its senderId, and reports the queue length right after
\* the append; nothing else ever lengthens the queue.
C10_EnqueueOnSuccessAtTail ==
    [][/\ (last'.op = "upload-message" /\ last'.ack \in {"400", "500"}) =>
            UNCHANGED <<messageQueue, userMessages>>
       /\ (last'.op = "upload-message" /\ last'.ack = "200") =>
            /\ Len(messageQueue') = Len(messageQueue) + 1
            /\ SubSeq(messageQueue', 1, Len(messageQueue)) = messageQueue
            /\ messageQueue'[Len(messageQueue')].id = last'.id
            /\ last'.id \notin DOMAIN userMessages
            /\ DOMAIN userMessages' = (DOMAIN userMessages) \cup {last'.id}
            /\ userMessages'[last'.id] = messageQueue'[Len(messageQueue')].senderId
            /\ \A k \in DOMAIN userMessages : userMessages'[k] = userMessages[k]
            /\ last'.pos = Len(messageQueue')
       /\ Len(messageQueue') > Len(messageQueue) =>
            (last'.op = "upload-message" /\ last'.ack = "200")
      ]_vars

C10_SecondUploadAtTail ==
    /\ last.op = "upload-message"
    /\ last.ack = "200"
    /\ last.pos = 2
    /\ Len(messageQueue) = 2
    /\ messageQueue[2].id = last.id
    /\ messageQueue[1].id > messageQueue[2].id

\* C11: a skip-message event, from any connection and for any message id,
\* leaves the queue, the index, pendingReplies and the presence map as they
\* were, delivers no message-received or reply-received event (no replacement
\* is offered and the skipped message is not re-queued), and the only thing
\* it emits is message-skipped, to the caller alone; the one skip-message
\* that is not answered so is the event without a payload, which names no
\* message id, throws and emits nothing.
C11_SkipStateless ==
    [][last'.op = "skip-message" =>
          /\ UNCHANGED <<messageQueue, userMessages, pendingReplies, activeUsers, emitted>>
          /\ \/ last'.ack = "message-skipped" /\ last'.target = last'.conn
             \/ last'.ack = SkipThrown /\ last'.target = NoConn
      ]_vars

C11_SkippedWhileAnotherWaits ==
    /\ last.op = "skip-message"
    /\ last.ack = "message-skipped"
    /\ \E e \in Received : e.to = last.conn /\ e.id \notin QueueIds(messageQueue)
    /\ \E i \in 1..Len(messageQueue) : messageQueue[i].senderId # last.conn

\* C12: the keys of the presence map are always open connections; a step
\* changes them only by adding the connection that emitted join-queue or by
\* removing the connection that disconnected (one key per connection, however
\* often it joined); the health probe reports the number of keys and the
\* length of the queue, and changes no state.
C12_PresenceBookkeeping ==
    /\ [](/\ DOMAIN activeUsers \subseteq {c \in Conns : connState[c] = "open"}
          /\ last.op = "health" =>
                /\ last.id = Cardinality(DOMAIN activeUsers)
                /\ last.pos = Len(messageQueue))
    /\ [][/\ DOMAIN activeUsers' =
                IF last'.op = "join-queue" THEN (DOMAIN activeUsers) \cup {last'.conn}
                ELSE IF last'.op = "disconnect" THEN (DOMAIN activeUsers) \ {last'.conn}
                ELSE DOMAIN activeUsers
          /\ last'.op = "health" =>
                UNCHANGED <<messageQueue, activeUsers, pendingReplies, userMessages,
                            connState, uploads, nextId, now, emitted>>
         ]_vars

C12_HealthAfterJoinAndLeave ==
    /\ last.op = "health"
    /\ last.id = 1
    /\ last.pos = 1
    /\ \E e \in Received : connState[e.to] = "closed"

\* C14: a sweep leaves in the queue exactly the messages with
\* now - timestamp <= 60000, in their previous order, and in pendingReplies
\* exactly the entries with now - timestamp <= 60000, unchanged; the presence
\* map keeps its value and no event is delivered.
C14Fresh(m) == now - m.timestamp <= 60000

C14_SweepExact ==
    [][last'.op = "sweep" =>
          /\ messageQueue' = SelectSeq(messageQueue, C14Fresh)
          /\ pendingReplies' =
                [k \in {x \in DOMAIN pendingReplies : C14Fresh(pendingReplies[x])}
                    |-> pendingReplies[k]]
          /\ UNCHANGED <<activeUsers, emitted>>
      ]_vars

C14_SweptQueueKeptCorrelation ==
    /\ last.op = "sweep"
    /\ last.pos = 1
    /\ \E k \in DOMAIN pendingReplies : now - pendingReplies[k].timestamp = 60000

\* C15: a correlation appears only by the send-message that announces its id
\* in message-sent, and maps that id to the registering connection for as long
\* as it exists; it disappears only by a send-reply for that id or by a sweep
\* that finds it older than 60000 ms (and such a sweep always removes it); a
\* send-reply for an id that has a correlation targets reply-received at the
\* registering connection (reaching it if it is still connected, and no one
\* else) and removes the correlation; a send-reply for an id without one,
\* as after expiry, delivers nothing.
C15_PendingLifecycle ==
    /\ [](\A k \in DOMAIN pendingReplies :
             k \in DOMAIN registered /\ pendingReplies[k].senderId = registered[k])
    /\ [][/\ \A k \in (DOMAIN pendingReplies') \ (DOMAIN pendingReplies) :
                /\ last'.op = "send-message"
                /\ last'.ack = "message-sent"
                /\ last'.id = k
                /\ last'.target = last'.conn
                /\ pendingReplies'[k].senderId = last'.conn
          /\ last'.op = "send-message" => last'.id \in DOMAIN pendingReplies'
          /\ \A k \in (DOMAIN pendingReplies) \ (DOMAIN pendingReplies') :
                \/ last'.op = "send-reply" /\ last'.id = k
                \/ last'.op = "sweep" /\ now - pendingReplies[k].timestamp > 60000
          /\ \A k \in (DOMAIN pendingReplies) \cap (DOMAIN pendingReplies') :
                pendingReplies'[k] = pendingReplies[k]
          /\ last'.op = "sweep" =>
                \A k \in DOMAIN pendingReplies :
                   now - pendingReplies[k].timestamp > 60000 => k \notin DOMAIN pendingReplies'
          /\ (last'.op = "send-reply" /\ last'.id \in DOMAIN pendingReplies) =>
                LET r == pendingReplies[last'.id].senderId IN
                  /\ last'.target = r
                  /\ last'.id \notin DOMAIN pendingReplies'
                  /\ emitted' = IF connState[r] = "open"
                                THEN emitted (+) SetToBag({ReplyReceived(r, last'.id, "send-reply")})
                                ELSE emitted
          /\ (last'.op = "send-reply" /\ last'.id \notin DOMAIN pendingReplies) =>
                emitted' = emitted
         ]_vars

C15_ReplyAfterExpiry ==
    /\ last.op = "send-reply"
    /\ last.target = NoConn
    /\ last.id \in DOMAIN registered
    /\ connState[registered[last.id]] = "open"
    /\ \A e \in Replies : ~(e.via = "send-reply" /\ e.id = last.id)

\* C17: the ids of the queued messages are pairwise distinct, the keys of
\* userMessages are exactly those ids, and userMessages maps each of them to
\* the senderId stored in the queued message.
C17_IndexConsistent ==
    /\ \A i, j \in 1..Len(messageQueue) : messageQueue[i].id = messageQueue[j].id => i = j
    /\ DOMAIN userMessages = QueueIds(messageQueue)
    /\ \A i \in 1..Len(messageQueue) :
          userMessages[messageQueue[i].id] = messageQueue[i].senderId

C17_OneEvictedOneIndexed ==
    /\ evicted # {}
    /\ Len(messageQueue) = 1
    /\ DOMAIN userMessages = {2}
    /\ userMessages[2] = Anonymous

\* C13 (as claimed): an enqueue re-attempts the claim for the waiting
\* connections: right after an upload-message has enqueued a message, that
\* message is not left queued while a connection that joined, is still
\* connected and has been offered nothing so far is neither its sender nor its
\* author.
C13_ReofferedOnEnqueue ==
    (last.op = "upload-message" /\ last.ack = "200") =>
        \A v \in DOMAIN activeUsers :
            (/\ \A e \in Received : e.to # v
             /\ author[last.id] # v
             /\ \E i \in 1..Len(messageQueue) :
                   messageQueue[i].id = last.id /\ messageQueue[i].senderId # v)
            => FALSE

\* C16: with the clock advancing and the timer firing, every message that is
\* in the queue is eventually out of it, whether or not any connection joins
\* (at the latest once the timer has fired TimedPeriods times, the queue is
\* empty); and every message ever enqueued is in exactly one place: still
\* queued, delivered by a join-queue, or evicted by the sweep.
C16_EveryMessageLeaves ==
    /\ \A m \in Ids :
          (m \in QueueIds(messageQueue)) ~> (m \notin QueueIds(messageQueue))
    /\ [](nextSweep >= TimedLastFiring + SweepPeriod => messageQueue = <<>>)
    /\ [](\A m \in DOMAIN author :
             LET queued == IF m \in QueueIds(messageQueue) THEN 1 ELSE 0
                 claimed == IF \E e \in Received : e.id = m THEN 1 ELSE 0
                 swept == IF m \in evicted THEN 1 ELSE 0
             IN queued + claimed + swept = 1)

C16_EvictedThoughNobodyJoined ==
    /\ evicted # {}
    /\ messageQueue = <<>>
    /\ \A c \in Conns : connState[c] = "idle"
    /\ Received = {}

\* C18 (as claimed): with the sweep on its 10000 ms timer, every message a
\* join-queue delivers is at most 70000 ms old at delivery, and every message
\* left in the queue by a sweep is at most 60000 ms old.
C18_BoundedStaleness ==
    /\ [](last.op = "sweep" =>
            \A i \in 1..Len(messageQueue) : now - messageQueue[i].timestamp <= 60000)
    /\ [][(last'.op = "join-queue" /\ last'.id # 0) =>
             /\ messageQueue[last'.pos].id = last'.id
             /\ now - messageQueue[last'.pos].timestamp <= 70000
         ]_vars

\* C18 (amended): every message left in the queue by a sweep is at most
\* 60000 ms old; every queued message was at most 60000 ms old when the
\* timer was last armed (at the previous sweep, or at start-up); so every
\* message a join-queue delivers is at most 60000 ms plus the time since
\* then old, which is 10000 ms plus the lateness of the timer.
C18_StalenessWithinSweepGap ==
    /\ [](/\ last.op = "sweep" =>
              \A i \in 1..Len(messageQueue) : now - messageQueue[i].timestamp <= 60000
          /\ \A i \in 1..Len(messageQueue) :
                (nextSweep - 10000) - messageQueue[i].timestamp <= 60000
          /\ now - (nextSweep - 10000) <= 10000 + TimedLate)
    /\ [][(last'.op = "join-queue" /\ last'.id # 0) =>
             /\ messageQueue[last'.pos].id = last'.id
             /\ now - messageQueue[last'.pos].timestamp <= 60000 + (now - (nextSweep - 10000))
             /\ now - messageQueue[last'.pos].timestamp <= 70000 + TimedLate
         ]_vars

\* a delivery by a late timer's instant, before its sweep, while a message
\* behind the delivered one is itself older than 70000 ms
C18_DeliveredOlderThanBound ==
    /\ last.op = "join-queue"
    /\ last.id # 0
    /\ now > nextSweep
    /\ \E i \in 1..Len(messageQueue) :
          /\ messageQueue[i].senderId # last.conn
          /\ now - messageQueue[i].timestamp > 70000

====
